---- MODULE Spec2Model ----
(***************************************************************************)
(* A model of the affine store-forwarding pass of ScaleHLS                 *)
(* (lib/Transforms/Memory/AffineStoreForward.cpp).                         *)
(*                                                                         *)
(* The IR of one function body is a sequence of operation records in       *)
(* textual (pre-order) order.  Every record names its parent operation     *)
(* (0 is the function) and the region of the parent it lives in ("then" /  *)
(* "else" of an affine.if, "body" otherwise); every region holds a single  *)
(* block, so the order of two operations of one block is the order of      *)
(* their positions in the sequence.  A value is 0 (the function argument   *)
(* %v, of type f32) or the id of the operation that defines it.            *)
(*                                                                         *)
(* The analyses the pass calls from MLIR (dominance, access equality, the  *)
(* affine dependence test) are modelled by their contract on this IR.      *)
(***************************************************************************)
EXTENDS Integers, Sequences, FiniteSets, TLC

VARIABLES
    prog,            \* the function body being transformed
    ret,             \* operands of the function's return: values still used
    orig,            \* the input function body (never changes)
    origRet,         \* the input return operands (never changes)
    pc,              \* position of the driver applyAffineStoreForward
    walk,            \* operations the current func.walk has still to visit
    cur,             \* currentLoadOp of the driver's forwarding loop
    opsToErase,      \* the deferred-erase list of the driver
    memrefsToErase,  \* the potentially dead memrefs collected so far
    nextId,          \* id of the next operation created
    last,            \* what the last step did (its inputs, result, pre-state)
    eraseLog,        \* every Operation::erase so far: what, when, uses left
    depOracle,       \* answers of the affine dependence test inside loops
    runs,            \* how many times the pass has been started
    trav,            \* the CFG traversal of one query over a multi-block region
    iters            \* iterations of the forwarding loop that went on, this load

vars == <<prog, ret, orig, origRet, pc, walk, cur, opsToErase, memrefsToErase,
          nextId, last, eraseLog, depOracle, runs, trav,
          iters>>

(***************************************************************************)
(* Bounds of the model.                                                    *)
(***************************************************************************)
\* Operations of an input function body, the alloc and dealloc of the
\* local buffer not counted.
MaxOps == 4

\* Operations of a function body handed to a single interference query.
MaxScanOps == 4

\* Memrefs: "A" and "C" are function arguments, "B" and "D" are allocated
\* in the function (by an alloc operation of the body); "none" stands for
\* no memref operand.
Conds == {1, 2}
Types == {"f32", "vec"}
DepResults == {"NoDependence", "HasDependence", "Failure"}

MkOp(id, kind, parent, br, mem, idx, val, val2, ty, cond) ==
    [id |-> id, kind |-> kind, parent |-> parent, br |-> br, mem |-> mem,
     idx |-> idx, val |-> val, val2 |-> val2, ty |-> ty, cond |-> cond]

(***************************************************************************)
(* Structure of the IR.                                                    *)
(***************************************************************************)
Ids(p) == {p[i].id : i \in DOMAIN p}
PosOf(p, id) == CHOOSE i \in DOMAIN p : p[i].id = id
OpOf(p, id) == p[PosOf(p, id)]
RegionOf(p, id) == <<OpOf(p, id).parent, OpOf(p, id).br>>
Children(p, id) == {x \in Ids(p) : OpOf(p, x).parent = id}
ThenChildren(p, id) == {x \in Children(p, id) : OpOf(p, x).br = "then"}
HasElse(p, id) == \E x \in Children(p, id) : OpOf(p, x).br = "else"

\* Region::findAncestorOpInRegion: the operation of region reg that is id
\* or encloses it; 0 when there is none.
RECURSIVE AncestorIn(_, _, _)
AncestorIn(p, reg, id) ==
    IF id = 0 THEN 0
    ELSE IF RegionOf(p, id) = reg THEN id
    ELSE AncestorIn(p, reg, OpOf(p, id).parent)

\* Region::isAncestor(region of id).
RegionIsAncestor(p, reg, id) == AncestorIn(p, reg, id) # 0

\* Operation::isAncestor, proper.
RECURSIVE IsInside(_, _, _)
IsInside(p, id, anc) ==
    IF id = 0 THEN FALSE
    ELSE LET par == OpOf(p, id).parent
         IN  par = anc \/ IsInside(p, par, anc)

RECURSIVE Ancestors(_, _)
Ancestors(p, id) ==
    LET par == OpOf(p, id).parent
    IN  IF par = 0 THEN {} ELSE {par} \cup Ancestors(p, par)

\* DominanceInfo::dominates(Operation *, Operation *).
Dominates(p, a, b) ==
    \/ a = b
    \/ LET b2 == AncestorIn(p, RegionOf(p, a), b)
       IN  /\ b2 # 0
           /\ (a = b2 \/ PosOf(p, a) < PosOf(p, b2))

\* PostDominanceInfo::postDominates(Operation *, Operation *).
PostDominates(p, a, b) ==
    \/ a = b
    \/ LET b2 == AncestorIn(p, RegionOf(p, a), b)
       IN  /\ b2 # 0
           /\ (a = b2 \/ PosOf(p, b2) < PosOf(p, a))

\* MemRefAccess::operator==: same memref, same composed index.
AccessEq(a, b) == a.mem = b.mem /\ a.idx = b.idx

\* The type of a value.
TypeOf(p, v) == IF v = 0 THEN "f32" ELSE OpOf(p, v).ty

\* The users of a memref (its defining alloc is not one).
MemUsers(p, m) == {x \in Ids(p) : OpOf(p, x).mem = m /\ OpOf(p, x).kind # "alloc"}

\* Whether the result of operation id has a use left.
HasUses(p, r, id) ==
    IF OpOf(p, id).kind = "alloc" THEN MemUsers(p, OpOf(p, id).mem) # {}
    ELSE \/ \E i \in DOMAIN p :
              /\ p[i].kind \in {"store", "select", "mstore"}
              /\ (p[i].val = id \/ (p[i].kind = "select" /\ p[i].val2 = id))
         \/ \E i \in DOMAIN r : r[i] = id

(***************************************************************************)
(* hasNoInterveningEffect<EffectType>(start, memOp).                       *)
(***************************************************************************)
\* isLocallyAllocated: the memref is defined by an operation whose single
\* effect on it is Allocate.
isLocallyAllocated(p, m) ==
    \E i \in DOMAIN p : p[i].kind = "alloc" /\ p[i].mem = m

\* An interface lookup that misses the operations without effects.
HasMemEffectInterfaceEffectful(o) ==
    o.kind \in {"load", "store", "mload", "mstore", "alloc", "dealloc"}

\* Operations that implement MemoryEffectOpInterface.  affine.if, affine.for
\* and the scope operation carry HasRecursiveSideEffects instead; a call has
\* neither.
HasMemEffectInterface(o) ==
    o.kind \in {"load", "store", "mload", "mstore", "alloc", "dealloc",
                "select", "pure"}
HasRecursiveSideEffects(o) == o.kind \in {"if", "for", "scope"}

\* getEffects: the declared effects, as <<effect, value>>.
Effects(o) ==
    CASE o.kind \in {"load", "mload"} -> {<<"Read", o.mem>>}
      [] o.kind \in {"store", "mstore"} -> {<<"Write", o.mem>>}
      [] o.kind = "alloc" -> {<<"Allocate", o.mem>>}
      [] o.kind = "dealloc" -> {<<"Free", o.mem>>}
      [] OTHER -> {}

IsAffineAccess(o) == o.kind \in {"load", "store"}

\* The aliasing disproof of the effect loop: the effect is skipped when it
\* names a value other than memref and both are locally allocated.
EffectExcluded(p, e, memref) ==
    /\ e[2] # "none"
    /\ e[2] # memref
    /\ isLocallyAllocated(p, memref)
    /\ isLocallyAllocated(p, e[2])

opMayHaveEffect(p, eff, o, memref) ==
    \E e \in Effects(o) : e[1] = eff /\ ~EffectExcluded(p, e, memref)

\* getAffineScope: the closest enclosing operation with the AffineScope
\* trait; 0 is the function.
RECURSIVE getAffineScope(_, _)
getAffineScope(p, id) ==
    LET par == OpOf(p, id).parent
    IN  IF par = 0 THEN 0
        ELSE IF OpOf(p, par).kind = "scope" THEN par
        ELSE getAffineScope(p, par)

\* getNumCommonSurroundingLoops.
getNumCommonSurroundingLoops(p, a, b) ==
    Cardinality({f \in Ancestors(p, a) \cap Ancestors(p, b) :
                    OpOf(p, f).kind = "for"})

\* A dependence tester that never finds a dependence.
AlwaysNoDependence(p, src, dst, d) == "NoDependence"

\* checkMemrefAccessDependence(src, dst, d).  Outside every loop the two
\* constant accesses depend exactly when one of them writes, they touch the
\* same element and src comes first; inside a common loop the answer is an
\* input of the model (depOracle).
checkMemrefAccessDependence(p, src, dst, d) ==
    IF src.mem # dst.mem THEN "NoDependence"
    ELSE IF src.kind # "store" /\ dst.kind # "store" THEN "NoDependence"
    ELSE IF getNumCommonSurroundingLoops(p, src.id, dst.id) = 0
         THEN IF src.idx = dst.idx /\ PosOf(p, src.id) < PosOf(p, dst.id)
              THEN "HasDependence" ELSE "NoDependence"
    ELSE depOracle[d]

\* A dependence loop that stops one depth early.
DepthsTestedShallow(p, start, memOp, o) ==
    (getNumCommonSurroundingLoops(p, start, memOp.id) + 2) ..
    (getNumCommonSurroundingLoops(p, o.id, memOp.id) + 1)

\* The depths the dependence loop of checkOperation tests.
DepthsTested(p, start, memOp, o) ==
    (getNumCommonSurroundingLoops(p, start, memOp.id) + 1) ..
    (getNumCommonSurroundingLoops(p, o.id, memOp.id) + 1)

\* checkOperation on an operation with MemoryEffectOpInterface: whether it
\* sets hasSideEffect.
EffectInterferes(p, eff, start, memOp, o) ==
    IF ~opMayHaveEffect(p, eff, o, memOp.mem) THEN FALSE
    ELSE IF IsAffineAccess(o)
         THEN IF o.mem # memOp.mem THEN FALSE
              ELSE IF /\ getAffineScope(p, o.id) = getAffineScope(p, memOp.id)
                      /\ getAffineScope(p, o.id) = getAffineScope(p, start)
                   THEN \E d \in DepthsTested(p, start, memOp, o) :
                           checkMemrefAccessDependence(p, o, memOp, d)
                               # "NoDependence"
                   ELSE TRUE
    ELSE TRUE

\* checkOperation(op): whether op sets hasSideEffect.
RECURSIVE checkOperation(_, _, _, _, _)
checkOperation(p, eff, start, memOp, id) ==
    LET o == OpOf(p, id)
    IN  IF HasMemEffectInterface(o)
        THEN EffectInterferes(p, eff, start, memOp, o)
        ELSE IF HasRecursiveSideEffects(o)
        THEN \E c \in Children(p, id) : checkOperation(p, eff, start, memOp, c)
        ELSE TRUE

\* The operations recur(from, untilOp) hands to checkOperation: those after
\* from in its block up to the ancestor of untilOp there, and (until) every
\* ancestor of untilOp below that block, whole.
RECURSIVE recur(_, _, _)
recur(p, from, untilOp) ==
    IF untilOp = 0 THEN {}
    ELSE IF RegionOf(p, from) # RegionOf(p, untilOp)
    THEN recur(p, from, OpOf(p, untilOp).parent) \cup {OpOf(p, untilOp).parent}
    ELSE {x \in Ids(p) :
            /\ RegionOf(p, x) = RegionOf(p, from)
            /\ PosOf(p, x) > PosOf(p, from)
            /\ (PosOf(p, untilOp) > PosOf(p, from)
                    => PosOf(p, x) < PosOf(p, untilOp))}

\* Every operation checkOperation is applied to in one query, the nested
\* ones included.
RECURSIVE Visited(_, _)
Visited(p, id) ==
    LET o == OpOf(p, id)
    IN  {id} \cup
        (IF ~HasMemEffectInterface(o) /\ HasRecursiveSideEffects(o)
         THEN UNION {Visited(p, c) : c \in Children(p, id)}
         ELSE {})

Scanned(p, start, memOpId) ==
    UNION {Visited(p, x) : x \in recur(p, start, memOpId) \ {0}}

hasNoInterveningEffect(p, eff, start, memOpId) ==
    \A x \in recur(p, start, memOpId) \ {0} :
        ~checkOperation(p, eff, start, OpOf(p, memOpId), x)

(***************************************************************************)
(* Mutation of the IR.                                                     *)
(***************************************************************************)
\* A replacement that forgets the operands of the return.
ReplaceUsesInRetNone(r, old, new) == r

\* Value::replaceAllUsesWith.
ReplaceUsesInProg(p, old, new) ==
    [i \in DOMAIN p |->
        [p[i] EXCEPT !.val = IF @ = old THEN new ELSE @,
                     !.val2 = IF @ = old THEN new ELSE @]]
ReplaceUsesInRet(r, old, new) ==
    [i \in DOMAIN r |-> IF r[i] = old THEN new ELSE r[i]]

\* Operation::erase: the operation goes, with everything nested in it.
EraseOp(p, id) ==
    SelectSeq(p, LAMBDA o : o.id # id /\ ~IsInside(p, o.id, id))

\* One entry of eraseLog.
ErasedEntry(p, r, id, at) ==
    [id |-> id,
     kind |-> IF id \in Ids(p) THEN OpOf(p, id).kind ELSE "gone",
     at |-> at,
     uses |-> IF id \in Ids(p) THEN HasUses(p, r, id) ELSE TRUE]

LoadsOf(p) == SelectSeq(p, LAMBDA o : o.kind = "load")
StoresOf(p) == SelectSeq(p, LAMBDA o : o.kind = "store")
IdsOfSeq(q) == [i \in DOMAIN q |-> q[i].id]

(***************************************************************************)
(* forwardStoreToLoad.                                                     *)
(***************************************************************************)
\* The sole operation of an else-less affine.if (the then block holds it and
\* the terminator).
SoleInElselessIf(p, ifId) ==
    /\ ifId # 0
    /\ OpOf(p, ifId).kind = "if"
    /\ ~HasElse(p, ifId)
    /\ Cardinality(ThenChildren(p, ifId)) = 1

\* startOp of a store for a load: the enclosing conditional when the store
\* is its only operation and the conditional's region encloses the load.
StartOp(p, s, l) ==
    LET par == OpOf(p, s).parent
    IN  IF SoleInElselessIf(p, par) /\ RegionIsAncestor(p, RegionOf(p, par), l)
        THEN par ELSE s

\* A candidate loop without its third check.
ForwardCandidatesUnscanned(p, l) ==
    {s \in MemUsers(p, OpOf(p, l).mem) :
        /\ OpOf(p, s).kind = "store"
        /\ AccessEq(OpOf(p, s), OpOf(p, l))
        /\ Dominates(p, StartOp(p, s, l), l)}

\* The stores that pass the three checks of the candidate loop.
ForwardCandidates(p, l) ==
    {s \in MemUsers(p, OpOf(p, l).mem) :
        /\ OpOf(p, s).kind = "store"
        /\ AccessEq(OpOf(p, s), OpOf(p, l))
        /\ Dominates(p, StartOp(p, s, l), l)
        /\ hasNoInterveningEffect(p, "Write", StartOp(p, s, l), l)}

\* The hoist without the erasure of the conditional: the store leaves, the
\* clone and the select are created, the emptied conditional stays.
HoistStoreKeepingIf(p, s, l, nid) ==
    LET ifId == OpOf(p, s).parent
        k == PosOf(p, ifId)
        ifOp == p[k]
        ld == OpOf(p, l)
        st == OpOf(p, s)
        newLoad == MkOp(nid, "load", ifOp.parent, ifOp.br, ld.mem, ld.idx,
                        -1, -1, ld.ty, 0)
        select == MkOp(nid + 1, "select", ifOp.parent, ifOp.br, "none", 0,
                       st.val, nid, TypeOf(p, st.val), ifOp.cond)
        moved == [st EXCEPT !.parent = ifOp.parent, !.br = ifOp.br,
                            !.val = nid + 1]
        others == SelectSeq(p, LAMBDA o : o.id # s)
    IN  SubSeq(others, 1, k - 1) \o <<newLoad, select, moved>>
            \o SubSeq(others, k, Len(others))

\* A hoist whose select takes its two values in the wrong order.
HoistStoreSwapped(p, s, l, nid) ==
    LET ifId == OpOf(p, s).parent
        k == PosOf(p, ifId)
        ifOp == p[k]
        ld == OpOf(p, l)
        st == OpOf(p, s)
        newLoad == MkOp(nid, "load", ifOp.parent, ifOp.br, ld.mem, ld.idx,
                        -1, -1, ld.ty, 0)
        select == MkOp(nid + 1, "select", ifOp.parent, ifOp.br, "none", 0,
                       nid, st.val, TypeOf(p, st.val), ifOp.cond)
        moved == [st EXCEPT !.parent = ifOp.parent, !.br = ifOp.br,
                            !.val = nid + 1]
        others == SelectSeq(p, LAMBDA o : o.id # ifId /\ o.id # s)
    IN  SubSeq(others, 1, k - 1) \o <<newLoad, select, moved>>
            \o SubSeq(others, k, Len(others))

\* The special case: the store leaves its conditional, a clone of the load
\* and a select are created before it, the conditional is erased.
HoistStore(p, s, l, nid) ==
    LET ifId == OpOf(p, s).parent
        k == PosOf(p, ifId)
        ifOp == p[k]
        ld == OpOf(p, l)
        st == OpOf(p, s)
        newLoad == MkOp(nid, "load", ifOp.parent, ifOp.br, ld.mem, ld.idx,
                        -1, -1, ld.ty, 0)
        select == MkOp(nid + 1, "select", ifOp.parent, ifOp.br, "none", 0,
                       st.val, nid, TypeOf(p, st.val), ifOp.cond)
        moved == [st EXCEPT !.parent = ifOp.parent, !.br = ifOp.br,
                            !.val = nid + 1]
        others == SelectSeq(p, LAMBDA o : o.id # ifId /\ o.id # s)
        before == SubSeq(others, 1, k - 1)
        after == SubSeq(others, k, Len(others))
    IN  before \o <<newLoad, select, moved>> \o after

\* forwardStoreToLoad(loadOp, ...): the new IR and return operands, the
\* returned load (0 is the null interface), what was appended to the erase
\* list and the memref set, and what was erased on the spot.
forwardStoreToLoad(p, r, l, nid) ==
    LET C == ForwardCandidates(p, l)
        unchanged == [prog |-> p, ret |-> r, res |-> l, toErase |-> <<>>,
                      memrefs |-> {}, erasedNow |-> <<>>, nextId |-> nid,
                      assertFailed |-> FALSE]
    IN  IF C = {} THEN unchanged
        ELSE IF Cardinality(C) > 1
        THEN [unchanged EXCEPT !.assertFailed = TRUE]
        ELSE
        LET s == CHOOSE x \in C : TRUE
            storeVal == OpOf(p, s).val
        IN  IF TypeOf(p, storeVal) # OpOf(p, l).ty THEN unchanged
            ELSE IF ~Dominates(p, s, l)
            THEN LET p1 == HoistStore(p, s, l, nid)
                 IN  [prog |-> ReplaceUsesInProg(p1, l, nid + 1),
                      ret |-> ReplaceUsesInRet(r, l, nid + 1),
                      res |-> nid,
                      toErase |-> <<l>>,
                      memrefs |-> {},
                      erasedNow |-> <<ErasedEntry(p, r, OpOf(p, s).parent, "fwd")>>,
                      nextId |-> nid + 2,
                      assertFailed |-> FALSE]
            ELSE [prog |-> ReplaceUsesInProg(p, l, storeVal),
                  ret |-> ReplaceUsesInRet(r, l, storeVal),
                  res |-> 0,
                  toErase |-> <<l>>,
                  memrefs |-> {OpOf(p, l).mem},
                  erasedNow |-> <<>>,
                  nextId |-> nid,
                  assertFailed |-> FALSE]

(***************************************************************************)
(* loadCSE.                                                                *)
(***************************************************************************)
\* A candidate search that does not compare the result types.
LoadCandidatesAnyType(p, a) ==
    {b \in MemUsers(p, OpOf(p, a).mem) :
        /\ OpOf(p, b).kind = "load"
        /\ b # a
        /\ AccessEq(OpOf(p, b), OpOf(p, a))
        /\ Dominates(p, b, a)
        /\ hasNoInterveningEffect(p, "Write", b, a)}

\* The loads to the same element that dominate loadA with no write between
\* and the same result type.
LoadCandidates(p, a) ==
    {b \in MemUsers(p, OpOf(p, a).mem) :
        /\ OpOf(p, b).kind = "load"
        /\ b # a
        /\ AccessEq(OpOf(p, b), OpOf(p, a))
        /\ Dominates(p, b, a)
        /\ hasNoInterveningEffect(p, "Write", b, a)
        /\ OpOf(p, b).ty = OpOf(p, a).ty}

\* The candidates that dominate all the others.
DominatingCandidates(p, a) ==
    {o \in LoadCandidates(p, a) :
        \A d \in LoadCandidates(p, a) : d = o \/ Dominates(p, o, d)}

\* A loadCSE that erases loadA on the spot.
loadCSEEraseNow(p, r, a) ==
    LET D == DominatingCandidates(p, a)
    IN  IF D = {}
        THEN [prog |-> p, ret |-> r, res |-> 0, toErase |-> <<>>]
        ELSE LET b == CHOOSE x \in D : TRUE
             IN  [prog |-> EraseOp(ReplaceUsesInProg(p, a, b), a),
                  ret |-> ReplaceUsesInRet(r, a, b),
                  res |-> b,
                  toErase |-> <<a>>]

\* loadCSE(loadA, ...): the chosen load (0 when none), the new IR.
loadCSE(p, r, a) ==
    LET D == DominatingCandidates(p, a)
    IN  IF D = {}
        THEN [prog |-> p, ret |-> r, res |-> 0, toErase |-> <<>>]
        ELSE LET b == CHOOSE x \in D : TRUE
             IN  [prog |-> ReplaceUsesInProg(p, a, b),
                  ret |-> ReplaceUsesInRet(r, a, b),
                  res |-> b,
                  toErase |-> <<a>>]

(***************************************************************************)
(* findUnusedStore.                                                        *)
(***************************************************************************)
\* scalehls::checkSameIfStatement: the two conditionals test the same
\* integer set on the same operands.
checkSameIfStatement(p, ifA, ifB) == OpOf(p, ifA).cond = OpOf(p, ifB).cond

IsIf(p, id) == id # 0 /\ OpOf(p, id).kind = "if"

TargetA(p, a, b) ==
    LET ifOpA == OpOf(p, a).parent
    IN  IF SoleInElselessIf(p, ifOpA)
           /\ RegionIsAncestor(p, RegionOf(p, ifOpA), b)
        THEN ifOpA ELSE a

TargetB(p, a, b) ==
    LET ifOpA == OpOf(p, a).parent
        ifOpB == OpOf(p, b).parent
    IN  IF IsIf(p, ifOpA) /\ IsIf(p, ifOpB) /\ checkSameIfStatement(p, ifOpA, ifOpB)
        THEN ifOpB ELSE b

\* A search that takes the post-dominance test the wrong way round.
OverwritersBefore(p, a) ==
    {b \in MemUsers(p, OpOf(p, a).mem) :
        /\ OpOf(p, b).kind = "store"
        /\ b # a
        /\ AccessEq(OpOf(p, b), OpOf(p, a))
        /\ RegionOf(p, TargetA(p, a, b)) = RegionOf(p, TargetB(p, a, b))
        /\ PostDominates(p, TargetA(p, a, b), TargetB(p, a, b))
        /\ hasNoInterveningEffect(p, "Read", TargetA(p, a, b), b)}

\* The stores writeB for which the loop reaches opsToErase.push_back.
Overwriters(p, a) ==
    {b \in MemUsers(p, OpOf(p, a).mem) :
        /\ OpOf(p, b).kind = "store"
        /\ b # a
        /\ AccessEq(OpOf(p, b), OpOf(p, a))
        /\ RegionOf(p, TargetA(p, a, b)) = RegionOf(p, TargetB(p, a, b))
        /\ PostDominates(p, TargetB(p, a, b), TargetA(p, a, b))
        /\ hasNoInterveningEffect(p, "Read", TargetA(p, a, b), b)}

\* The memref has only stores and deallocs left.
OnlyWritesAndFrees(p, m) ==
    \A u \in MemUsers(p, m) : OpOf(p, u).kind \in {"store", "dealloc"}

(***************************************************************************)
(* Execution of a function body, to compare what a body computes before    *)
(* and after the pass.  An execution is fixed by the truth of the          *)
(* conditions; contents are symbolic: 1 is %v, 10 + k the initial content  *)
(* of the k-th location, 100 and up what the calls wrote.                  *)
(***************************************************************************)
Locs == {<<"A", 0>>, <<"A", 1>>, <<"B", 0>>}
InitialContent(loc) ==
    IF loc = <<"A", 0>> THEN 10 ELSE IF loc = <<"A", 1>> THEN 11 ELSE 12
Envs == [Conds -> BOOLEAN]

RECURSIVE Executes(_, _, _)
Executes(p, id, env) ==
    LET o == OpOf(p, id)
    IN  IF o.parent = 0 THEN TRUE
        ELSE /\ (OpOf(p, o.parent).kind = "if" =>
                    (IF o.br = "then" THEN env[OpOf(p, o.parent).cond]
                     ELSE ~env[OpOf(p, o.parent).cond]))
             /\ Executes(p, o.parent, env)

ValOf(st, v) ==
    IF v = 0 THEN 1 ELSE IF v \in DOMAIN st.vals THEN st.vals[v] ELSE -1

ExecOp(o, env, st) ==
    CASE o.kind = "load" ->
            [st EXCEPT !.vals = (o.id :> st.mem[<<o.mem, o.idx>>]) @@ @]
      [] o.kind = "store" ->
            [st EXCEPT !.mem[<<o.mem, o.idx>>] = ValOf(st, o.val)]
      [] o.kind = "select" ->
            [st EXCEPT !.vals = (o.id :> (IF env[o.cond] THEN ValOf(st, o.val)
                                          ELSE ValOf(st, o.val2))) @@ @]
      [] o.kind = "call" ->
            [st EXCEPT !.obs = Append(@, <<st.mem[<<"A", 0>>], st.mem[<<"A", 1>>]>>),
                       !.calls = @ + 1,
                       !.mem[<<"A", 0>>] = 100 + 10 * st.calls,
                       !.mem[<<"A", 1>>] = 101 + 10 * st.calls]
      [] OTHER -> st

RECURSIVE RunFrom(_, _, _, _)
RunFrom(p, i, env, st) ==
    IF i > Len(p) THEN st
    ELSE RunFrom(p, i + 1, env,
                 IF Executes(p, p[i].id, env) THEN ExecOp(p[i], env, st) ELSE st)

Run(p, env) ==
    RunFrom(p, 1, env,
            [mem |-> [loc \in Locs |-> InitialContent(loc)],
             vals |-> <<>>, obs |-> <<>>, calls |-> 0])

\* What an execution shows: the returned values, what every call saw, the
\* final content of the argument memref and, when asked, of the local one.
Observable(p, r, env, withLocal) ==
    LET st == Run(p, env)
    IN  [ret |-> [i \in DOMAIN r |-> ValOf(st, r[i])],
         obs |-> st.obs,
         arg |-> <<st.mem[<<"A", 0>>], st.mem[<<"A", 1>>]>>,
         local |-> IF withLocal THEN st.mem[<<"B", 0>>] ELSE 0]

(***************************************************************************)
(* The input functions.                                                    *)
(***************************************************************************)
\* What an input body is built from.  At the top level: loads of A[0] (as
\* f32 and as a vector) and of B[0], stores to A[0], A[1] and B[0], a call,
\* a conditional.  Inside a conditional: loads of A[0], stores to A[0] and
\* B[0].  A store stores %v or the latest load whose result is visible to it
\* (always %v to A[1], and to B[0] inside a conditional).
TopLoadForms == {<<"A", 0, "f32">>, <<"A", 0, "vec">>, <<"B", 0, "f32">>}
NestedLoadForms == {<<"A", 0, "f32">>}
TopStoreForms == {<<"A", 0, TRUE>>, <<"A", 1, FALSE>>, <<"B", 0, TRUE>>}
NestedStoreForms == {<<"A", 0, TRUE>>, <<"B", 0, FALSE>>}

SetMax(S) == CHOOSE x \in S : \A y \in S : y <= x

\* The operations that may follow body b: at the top level, or in the then
\* or else block of the conditional that ends b.  The first conditional
\* tests condition 1.
Menu(b) ==
    LET n == Len(b) + 1
        tops == {i \in DOMAIN b : b[i].parent = 0}
        lastTop == IF tops = {} THEN 0 ELSE SetMax(tops)
        open == lastTop # 0 /\ b[lastTop].kind = "if"
        regs == {<<0, "body">>} \cup
                (IF open
                 THEN {<<lastTop, "else">>} \cup
                      (IF \E i \in DOMAIN b : b[i].parent = lastTop /\ b[i].br = "else"
                       THEN {} ELSE {<<lastTop, "then">>})
                 ELSE {})
        visible(reg) == {i \in DOMAIN b :
                            /\ b[i].kind = "load"
                            /\ (b[i].parent = 0 \/ <<b[i].parent, b[i].br>> = reg)}
        vals(reg, any) == {0} \cup (IF visible(reg) = {} \/ ~any THEN {}
                                    ELSE {SetMax(visible(reg))})
        loadForms(reg) == IF reg[1] = 0 THEN TopLoadForms ELSE NestedLoadForms
        storeForms(reg) == IF reg[1] = 0 THEN TopStoreForms ELSE NestedStoreForms
        conds == IF \E i \in DOMAIN b : b[i].kind = "if" THEN Conds ELSE {1}
    IN  UNION {
          {MkOp(n, "load", reg[1], reg[2], f[1], f[2], -1, -1, f[3], 0) :
              f \in loadForms(reg)}
          \cup UNION {{MkOp(n, "store", reg[1], reg[2], a[1], a[2], v, -1, "none", 0) :
                          v \in vals(reg, a[3])} : a \in storeForms(reg)}
          \cup (IF reg[1] = 0
                THEN {MkOp(n, "call", 0, "body", "none", 0, -1, -1, "none", 0)}
                     \cup {MkOp(n, "if", 0, "body", "none", 0, -1, -1, "none", c) :
                             c \in conds}
                ELSE {})
          : reg \in regs}

\* The body between the alloc and the dealloc of the local buffer B.
Wrap(b) ==
    <<MkOp(Len(b) + 1, "alloc", 0, "body", "B", 0, -1, -1, "none", 0)>>
    \o b \o
    <<MkOp(Len(b) + 2, "dealloc", 0, "body", "B", 0, -1, -1, "none", 0)>>

\* The function returns the results of its top-level loads.
ReturnOf(p) ==
    IdsOfSeq(SelectSeq(p, LAMBDA o : o.kind = "load" /\ o.parent = 0))

(***************************************************************************)
(* applyAffineStoreForward.                                                *)
(***************************************************************************)
\* No query over a multi-block region is under way.
NoTraversal == [pc |-> "none"]

NoStep == [kind |-> "init", arg |-> 0, res |-> 0, pre |-> <<>>,
           preRet |-> <<>>, preErase |-> <<>>, preMemrefs |-> {}]

Step(kind, arg, res) ==
    [kind |-> kind, arg |-> arg, res |-> res, pre |-> prog, preRet |-> ret,
     preErase |-> opsToErase, preMemrefs |-> memrefsToErase]

\* Where the driver stands once the walk over the stores and its erase
\* loop are over.
AfterStores(m) == IF m = {} THEN "done" ELSE "sweep"

\* Where the driver stands once the walk over the loads and its erase loop
\* are over: in the walk over the stores of p, if there are any.
AfterLoadErase(p, m) ==
    IF StoresOf(p) = <<>> THEN [pc |-> AfterStores(m), walk |-> <<>>]
    ELSE [pc |-> "dse", walk |-> IdsOfSeq(StoresOf(p))]

\* The next load of the walk, or the erase loop that follows the walk.
AfterLoad(p, w, e, m) ==
    IF w # <<>> THEN [pc |-> "fwd", cur |-> Head(w), walk |-> Tail(w)]
    ELSE IF e # <<>> THEN [pc |-> "erase1", cur |-> 0, walk |-> <<>>]
    ELSE [pc |-> AfterLoadErase(p, m).pc, cur |-> 0,
          walk |-> AfterLoadErase(p, m).walk]

\* No function yet: the upstream producer is about to build one.
Init ==
    /\ prog = <<>>
    /\ orig = <<>>
    /\ ret = <<>>
    /\ origRet = <<>>
    /\ pc = "build"
    /\ cur = 0
    /\ walk = <<>>
    /\ opsToErase = <<>>
    /\ memrefsToErase = {}
    /\ nextId = 1
    /\ last = NoStep
    /\ eraseLog = <<>>
    /\ depOracle = <<"NoDependence">>
    /\ runs = 0
    /\ iters = 0
    /\ trav = NoTraversal

\* The producer appends one operation to the body.
BuildOp ==
    /\ pc = "build"
    /\ Len(prog) < MaxOps
    /\ \E o \in Menu(prog) : prog' = Append(prog, o)
    /\ UNCHANGED <<ret, orig, origRet, pc, walk, cur, opsToErase,
                   memrefsToErase, nextId, last, eraseLog, depOracle>>
    /\ UNCHANGED runs
    /\ UNCHANGED trav
    /\ UNCHANGED iters

\* The pass is applied to the function: applyAffineStoreForward starts its
\* walk over the loads.
RunPass ==
    /\ pc = "build"
    /\ prog' = Wrap(prog)
    /\ orig' = prog'
    /\ ret' = ReturnOf(prog')
    /\ origRet' = ret'
    /\ LET a == AfterLoad(prog', IdsOfSeq(LoadsOf(prog')), <<>>, {})
       IN  pc' = a.pc /\ cur' = a.cur /\ walk' = a.walk
    /\ nextId' = Len(prog') + 1
    /\ UNCHANGED <<opsToErase, memrefsToErase, last, eraseLog, depOracle>>
    /\ runs' = 1
    /\ UNCHANGED trav
    /\ UNCHANGED iters

\* One iteration of the driver's while loop: forwardStoreToLoad on
\* currentLoadOp.
ForwardStep ==
    /\ pc = "fwd"
    /\ LET f == forwardStoreToLoad(prog, ret, cur, nextId)
       IN  IF f.assertFailed
           THEN /\ pc' = "assert"
                /\ last' = Step("assert", cur, 0)
                /\ UNCHANGED <<prog, ret, walk, cur, opsToErase,
                               memrefsToErase, nextId, eraseLog, iters>>
           ELSE /\ prog' = f.prog
                /\ ret' = f.ret
                /\ opsToErase' = opsToErase \o f.toErase
                /\ memrefsToErase' = memrefsToErase \cup f.memrefs
                /\ nextId' = f.nextId
                /\ eraseLog' = eraseLog \o f.erasedNow
                /\ last' = Step("fwd", cur, f.res)
                /\ IF f.res = 0
                   THEN LET a == AfterLoad(f.prog, walk, opsToErase',
                                           memrefsToErase')
                        IN  /\ pc' = a.pc /\ cur' = a.cur /\ walk' = a.walk
                            /\ iters' = 0
                   ELSE IF f.res = cur
                   THEN pc' = "cse" /\ UNCHANGED <<cur, walk, iters>>
                   ELSE /\ pc' = "fwd" /\ cur' = f.res /\ UNCHANGED walk
                        /\ iters' = iters + 1
    /\ UNCHANGED <<orig, origRet, depOracle>>
    /\ UNCHANGED runs
    /\ UNCHANGED trav

\* loadCSE on the load the forwarding loop ended with.
LoadCSEStep ==
    /\ pc = "cse"
    /\ LET c == loadCSE(prog, ret, cur)
       IN  /\ prog' = c.prog
           /\ ret' = c.ret
           /\ opsToErase' = opsToErase \o c.toErase
           /\ last' = Step("cse", cur, c.res)
           /\ LET a == AfterLoad(c.prog, walk, opsToErase', memrefsToErase)
              IN  pc' = a.pc /\ cur' = a.cur /\ walk' = a.walk
    /\ UNCHANGED <<orig, origRet, memrefsToErase, nextId, eraseLog, depOracle>>
    /\ UNCHANGED runs
    /\ UNCHANGED trav
    /\ iters' = 0

\* One iteration of the first erase loop; opsToErase.clear() follows the
\* last one.
EraseLoadStep ==
    /\ pc = "erase1"
    /\ opsToErase # <<>>
    /\ LET id == Head(opsToErase)
       IN  /\ prog' = EraseOp(prog, id)
           /\ eraseLog' = Append(eraseLog, ErasedEntry(prog, ret, id, "erase1"))
           /\ last' = Step("erase1", id, 0)
    /\ opsToErase' = Tail(opsToErase)
    /\ IF opsToErase' = <<>>
       THEN LET a == AfterLoadErase(prog', memrefsToErase)
            IN  pc' = a.pc /\ walk' = a.walk
       ELSE UNCHANGED <<pc, walk>>
    /\ UNCHANGED <<ret, orig, origRet, cur, memrefsToErase, nextId, depOracle>>
    /\ UNCHANGED runs
    /\ UNCHANGED trav
    /\ UNCHANGED iters

\* findUnusedStore on the next store of the walk.
FindUnusedStoreStep ==
    /\ pc = "dse"
    /\ walk # <<>>
    /\ LET a == Head(walk)
           m == OpOf(prog, a).mem
       IN  /\ \/ /\ Overwriters(prog, a) = {}
                 /\ opsToErase' = opsToErase
                 /\ last' = Step("dse", a, 0)
              \/ \E b \in Overwriters(prog, a) :
                     /\ opsToErase' = Append(opsToErase, TargetA(prog, a, b))
                     /\ last' = Step("dse", a, TargetA(prog, a, b))
           /\ memrefsToErase' =
                 IF OnlyWritesAndFrees(prog, m) THEN memrefsToErase \cup {m}
                 ELSE memrefsToErase
    /\ walk' = Tail(walk)
    /\ pc' = IF walk' # <<>> THEN "dse"
             ELSE IF opsToErase' # <<>> THEN "erase2"
             ELSE AfterStores(memrefsToErase')
    /\ UNCHANGED <<prog, ret, orig, origRet, cur, nextId, eraseLog, depOracle>>
    /\ UNCHANGED runs
    /\ UNCHANGED trav
    /\ UNCHANGED iters

\* One iteration of the second erase loop.
EraseStoreStep ==
    /\ pc = "erase2"
    /\ opsToErase # <<>>
    /\ LET id == Head(opsToErase)
       IN  /\ prog' = EraseOp(prog, id)
           /\ eraseLog' = Append(eraseLog, ErasedEntry(prog, ret, id, "erase2"))
           /\ last' = Step("erase2", id, 0)
    /\ opsToErase' = Tail(opsToErase)
    /\ pc' = IF opsToErase' # <<>> THEN "erase2" ELSE AfterStores(memrefsToErase)
    /\ UNCHANGED <<ret, orig, origRet, walk, cur, memrefsToErase, nextId,
                   depOracle>>
    /\ UNCHANGED runs
    /\ UNCHANGED trav
    /\ UNCHANGED iters

\* The erasures of one iteration of the final loop over memrefsToErase:
\* every user, then the alloc.
RECURSIVE EraseAll(_, _, _, _)
EraseAll(p, r, ids, log) ==
    IF ids = <<>> THEN [prog |-> p, log |-> log]
    ELSE EraseAll(EraseOp(p, Head(ids)), r, Tail(ids),
                  Append(log, ErasedEntry(p, r, Head(ids), "sweep")))

DefiningOp(p, m) ==
    IF isLocallyAllocated(p, m)
    THEN (CHOOSE i \in DOMAIN p : p[i].kind = "alloc" /\ p[i].mem = m)
    ELSE 0

SweepStep ==
    /\ pc = "sweep"
    /\ memrefsToErase # {}
    /\ \E m \in memrefsToErase :
          /\ memrefsToErase' = memrefsToErase \ {m}
          /\ last' = Step("sweep", 0, 0)
          /\ IF isLocallyAllocated(prog, m) /\ OnlyWritesAndFrees(prog, m)
             THEN LET users == IdsOfSeq(SelectSeq(prog,
                                   LAMBDA o : o.id \in MemUsers(prog, m)))
                      e == EraseAll(prog, ret,
                                    Append(users, prog[DefiningOp(prog, m)].id),
                                    eraseLog)
                  IN  prog' = e.prog /\ eraseLog' = e.log
             ELSE UNCHANGED <<prog, eraseLog>>
    /\ pc' = IF memrefsToErase' = {} THEN "done" ELSE "sweep"
    /\ UNCHANGED <<ret, orig, origRet, walk, cur, opsToErase, nextId, depOracle>>
    /\ UNCHANGED runs
    /\ UNCHANGED trav
    /\ UNCHANGED iters

Next ==
    \/ BuildOp
    \/ RunPass
    \/ ForwardStep
    \/ LoadCSEStep
    \/ EraseLoadStep
    \/ FindUnusedStoreStep
    \/ EraseStoreStep
    \/ SweepStep

Spec == Init /\ [][Next]_vars

(***************************************************************************)
(* The pass applied once more to its own output.                           *)
(***************************************************************************)
\* applyAffineStoreForward is called again on the function it has just
\* transformed: fresh opsToErase and memrefsToErase, a new walk over the
\* loads.  orig and origRet now hold the input of this second application.
RunAgain ==
    /\ pc = "done"
    /\ runs = 1
    /\ runs' = 2
    /\ orig' = prog
    /\ origRet' = ret
    /\ opsToErase' = <<>>
    /\ memrefsToErase' = {}
    /\ last' = NoStep
    /\ LET a == AfterLoad(prog, IdsOfSeq(LoadsOf(prog)), <<>>, {})
       IN  pc' = a.pc /\ cur' = a.cur /\ walk' = a.walk
    /\ UNCHANGED <<prog, ret, nextId, eraseLog, depOracle>>
    /\ UNCHANGED trav
    /\ UNCHANGED iters

TwiceNext == Next \/ RunAgain

TwiceSpec == Init /\ [][TwiceNext]_vars

(***************************************************************************)
(* Queries to hasNoInterveningEffect on bodies with loops, affine scopes,   *)
(* non-affine accesses and two local buffers.                              *)
(***************************************************************************)
\* The leaves of those bodies: <<kind, memref, index>>.
ScanLeafForms ==
    {<<"load", "A", 0>>, <<"load", "B", 0>>, <<"store", "A", 0>>,
     <<"store", "A", 1>>, <<"mstore", "A", 0>>,
     <<"mstore", "D", 0>>, <<"mload", "A", 0>>, <<"call", "none", 0>>}

ScanContainers == {"for", "scope"}

\* The operations that may be appended to body b: at the top level, or in
\* the loop or scope that ends b.
ScanMenu(b) ==
    LET id == Len(b) + 1
        open == IF b = <<>> THEN {}
                ELSE IF b[Len(b)].kind \in ScanContainers THEN {b[Len(b)].id}
                ELSE {b[Len(b)].parent} \ {0}
    IN  {MkOp(id, f[1], par, "body", f[2], f[3],
              IF f[1] \in {"store", "mstore"} THEN 0 ELSE -1, -1,
              IF f[1] \in {"load", "mload"} THEN "f32" ELSE "none", 0) :
            f \in ScanLeafForms, par \in open \cup {0}}
        \cup {MkOp(id, k, 0, "body", "none", 0, -1, -1, "none", 0) :
                k \in ScanContainers}

\* The allocations of the local buffers B and D come first.
ScanWrap(b) ==
    <<MkOp(Len(b) + 1, "alloc", 0, "body", "B", 0, -1, -1, "none", 0),
      MkOp(Len(b) + 2, "alloc", 0, "body", "D", 0, -1, -1, "none", 0)>>
    \o b

\* The pass asks about writes before a load and about reads before a store.
EffectQueried(memOp) == IF memOp.kind = "load" THEN "Write" ELSE "Read"

\* The answers the dependence tester may give at depths 1 and 2; they
\* matter when memOp lies in a loop.
DepOracles(p, memOp) ==
    IF \E f \in Ancestors(p, memOp) : OpOf(p, f).kind = "for"
    THEN [1 .. 2 -> DepResults]
    ELSE {<<"NoDependence", "NoDependence">>}

ScanInit ==
    /\ prog = <<>>
    /\ orig = <<>>
    /\ ret = <<>>
    /\ origRet = <<>>
    /\ pc = "scanbuild"
    /\ cur = 0
    /\ walk = <<>>
    /\ opsToErase = <<>>
    /\ memrefsToErase = {}
    /\ nextId = 1
    /\ last = NoStep
    /\ eraseLog = <<>>
    /\ depOracle = <<"NoDependence", "NoDependence">>
    /\ runs = 0
    /\ iters = 0
    /\ trav = NoTraversal

ScanBuildOp ==
    /\ pc = "scanbuild"
    /\ Len(prog) < MaxScanOps
    /\ \E o \in ScanMenu(prog) : prog' = Append(prog, o)
    /\ UNCHANGED <<ret, orig, origRet, pc, walk, cur, opsToErase,
                   memrefsToErase, nextId, last, eraseLog, depOracle>>
    /\ UNCHANGED runs
    /\ UNCHANGED trav
    /\ UNCHANGED iters

\* One call hasNoInterveningEffect<EffectType>(start, memOp), start before
\* memOp in a region that encloses memOp.
ScanQuery ==
    /\ pc = "scanbuild"
    /\ \E start, memOp \in Ids(prog) : \E dep \in DepOracles(prog, memOp) :
          LET p == ScanWrap(prog)
          IN  /\ OpOf(p, memOp).kind \in {"load", "store"}
              /\ OpOf(p, start).kind \in {"load", "store"}
              /\ PosOf(p, start) < PosOf(p, memOp)
              /\ RegionIsAncestor(p, RegionOf(p, start), memOp)
              /\ prog' = p
              /\ depOracle' = dep
              /\ cur' = memOp
              /\ walk' = <<start>>
    /\ pc' = "scanned"
    /\ UNCHANGED <<ret, orig, origRet, opsToErase, memrefsToErase, nextId,
                   last, eraseLog>>
    /\ UNCHANGED runs
    /\ UNCHANGED trav
    /\ UNCHANGED iters

\* The answer of the query asked in the state: start is walk[1], memOp is
\* cur.
ScanResult ==
    hasNoInterveningEffect(prog, EffectQueried(OpOf(prog, cur)), walk[1], cur)

ScanNext == ScanBuildOp \/ ScanQuery

ScanSpec == ScanInit /\ [][ScanNext]_vars

(***************************************************************************)
(* The claims.                                                             *)
(***************************************************************************)
Done == pc = "done"

\* C1: once the pass has run, on every execution the returned values, what
\* every call observed and the final content of every live location (the
\* argument memref, and the local buffer unless the pass deleted it) are
\* those of the input function.
C1_ObservableResultUnchanged ==
    Done =>
        \A env \in Envs :
            Observable(orig, origRet, env, isLocallyAllocated(prog, "B"))
                = Observable(prog, ret, env, isLocallyAllocated(prog, "B"))

(***************************************************************************)
(* recur(from, untilOp) in a region of several blocks: the traversal of    *)
(* the blocks, the operations of a block taken together.                   *)
(***************************************************************************)
MaxBlocks == 3
Blocks == 1 .. MaxBlocks

\* A block ends in a terminator with at most two successors.
SuccessorSets == {S \in SUBSET Blocks : Cardinality(S) <= 2}

\* The blocks of a set as a sequence, in the order of the successor list.
RECURSIVE SeqOf(_)
SeqOf(S) ==
    IF S = {} THEN <<>>
    ELSE LET x == CHOOSE y \in S : \A z \in S : y <= z
         IN  <<x>> \o SeqOf(S \ {x})

\* A visit that forgets to record the block in done.
VisitUnrecorded(t, blk) ==
    [t EXCEPT !.scans[blk] = @ + 1,
              !.todo = IF blk = t.untilBlk THEN @
                       ELSE @ \o SeqOf(t.succ[blk])]

\* The body of the while loop for a block that is not in done: the block
\* is recorded, its operations are checked up to untilOp, and its
\* successors are pushed when the terminator is reached.
Visit(t, blk) ==
    [t EXCEPT !.done = @ \cup {blk},
              !.scans[blk] = @ + 1,
              !.todo = IF blk = t.untilBlk THEN @
                       ELSE @ \o SeqOf(t.succ[blk])]

\* A query whose start is in block 1 and whose end is in block untilBlk of
\* one region, before the first operation is checked.
TraverseInit ==
    /\ prog = <<>>
    /\ orig = <<>>
    /\ ret = <<>>
    /\ origRet = <<>>
    /\ pc = "traverse"
    /\ cur = 0
    /\ walk = <<>>
    /\ opsToErase = <<>>
    /\ memrefsToErase = {}
    /\ nextId = 1
    /\ last = NoStep
    /\ eraseLog = <<>>
    /\ depOracle = <<"NoDependence", "NoDependence">>
    /\ runs = 0
    /\ iters = 0
    /\ \E succ \in [Blocks -> SuccessorSets], u \in Blocks :
          trav = [pc |-> "first", succ |-> succ, fromBlk |-> 1, untilBlk |-> u,
                  todo |-> <<>>, done |-> {},
                  scans |-> [b \in Blocks |-> 0]]

\* The first loop: the operations after from in its block are checked, up
\* to untilOp or the end of the block; the successors are pushed when
\* untilOp is in another block.
ScanStartBlock ==
    /\ trav.pc = "first"
    /\ trav' = [trav EXCEPT
                   !.pc = "loop",
                   !.scans[trav.fromBlk] = @ + 1,
                   !.todo = IF trav.untilBlk # trav.fromBlk
                            THEN SeqOf(trav.succ[trav.fromBlk]) ELSE <<>>]
    /\ UNCHANGED <<prog, ret, orig, origRet, pc, walk, cur, opsToErase,
                   memrefsToErase, nextId, last, eraseLog, depOracle, runs>>
    /\ UNCHANGED iters

\* One iteration of the while loop: pop_back_val, then skip or visit.
PopBlock ==
    /\ trav.pc = "loop"
    /\ trav.todo # <<>>
    /\ LET blk == trav.todo[Len(trav.todo)]
           t == [trav EXCEPT !.todo = SubSeq(@, 1, Len(@) - 1)]
       IN  trav' = IF blk \in trav.done THEN t ELSE Visit(t, blk)
    /\ UNCHANGED <<prog, ret, orig, origRet, pc, walk, cur, opsToErase,
                   memrefsToErase, nextId, last, eraseLog, depOracle, runs>>
    /\ UNCHANGED iters

\* todoBlocks is empty: the traversal is over.
EndTraversal ==
    /\ trav.pc = "loop"
    /\ trav.todo = <<>>
    /\ trav' = [trav EXCEPT !.pc = "end"]
    /\ UNCHANGED <<prog, ret, orig, origRet, pc, walk, cur, opsToErase,
                   memrefsToErase, nextId, last, eraseLog, depOracle, runs>>
    /\ UNCHANGED iters

TraverseNext == ScanStartBlock \/ PopBlock \/ EndTraversal

TraverseSpec == TraverseInit /\ [][TraverseNext]_vars

(***************************************************************************)
(* What the claims speak of, stated on the IR itself.                      *)
(***************************************************************************)
\* The start point of store s for load l: the store, or its enclosing
\* conditional when the store is the only operation of an else-less
\* conditional whose parent region encloses the load.
StartPoint(p, s, l) ==
    LET c == OpOf(p, s).parent
    IN  IF /\ c # 0
           /\ OpOf(p, c).kind = "if"
           /\ \A x \in Children(p, c) : x = s /\ OpOf(p, x).br = "then"
           /\ AncestorIn(p, RegionOf(p, c), l) # 0
        THEN c ELSE s

\* Store s meets the three forwarding-candidate conditions for load l.
IsForwardingSource(p, s, l) ==
    /\ OpOf(p, s).kind = "store"
    /\ OpOf(p, s).mem = OpOf(p, l).mem
    /\ OpOf(p, s).idx = OpOf(p, l).idx
    /\ Dominates(p, StartPoint(p, s, l), l)
    /\ hasNoInterveningEffect(p, "Write", StartPoint(p, s, l), l)

ForwardingSources(p, l) == {s \in Ids(p) : IsForwardingSource(p, s, l)}

TypedForwardingSources(p, l) ==
    {s \in ForwardingSources(p, l) : TypeOf(p, OpOf(p, s).val) = OpOf(p, l).ty}

\* Load b meets the conditions of loadCSE for load a.
IsCSESource(p, b, a) ==
    /\ OpOf(p, b).kind = "load"
    /\ b # a
    /\ OpOf(p, b).mem = OpOf(p, a).mem
    /\ OpOf(p, b).idx = OpOf(p, a).idx
    /\ Dominates(p, b, a)
    /\ hasNoInterveningEffect(p, "Write", b, a)
    /\ OpOf(p, b).ty = OpOf(p, a).ty

CSESources(p, a) == {b \in Ids(p) : IsCSESource(p, b, a)}

\* An operand record with its uses of value old turned into uses of new.
WithUse(o, old, new) ==
    [o EXCEPT !.val = IF @ = old THEN new ELSE @,
              !.val2 = IF @ = old THEN new ELSE @]

\* C2: forwardStoreToLoad rewrites the uses of the load (they are gone, the
\* load is scheduled for erasure, another load or none is returned) exactly
\* when some store meets the three candidate conditions and stores a value
\* of the load's type; otherwise it returns the load and nothing changes.
C2_ForwardsIffTypedCandidate ==
    last.kind = "fwd" =>
        IF TypedForwardingSources(last.pre, last.arg) # {}
        THEN /\ last.res # last.arg
             /\ ~HasUses(prog, ret, last.arg)
             /\ opsToErase = Append(last.preErase, last.arg)
        ELSE /\ last.res = last.arg
             /\ prog = last.pre
             /\ ret = last.preRet
             /\ opsToErase = last.preErase
             /\ memrefsToErase = last.preMemrefs

\* C2, witness: a store met the three conditions but stores a value of
\* another type, and the load came back untouched.
C2_Witness ==
    /\ last.kind = "fwd"
    /\ ForwardingSources(last.pre, last.arg) # {}
    /\ TypedForwardingSources(last.pre, last.arg) = {}
    /\ last.res = last.arg
    /\ prog = last.pre

OverwrittenBy(p, a, b) ==
    /\ OpOf(p, b).kind = "store"
    /\ b # a
    /\ AccessEq(OpOf(p, b), OpOf(p, a))
    /\ PosOf(p, a) < PosOf(p, b)
    /\ \A env \in Envs : Executes(p, a, env) => Executes(p, b, env)
    /\ \A x \in Ids(p) :
          PosOf(p, a) < PosOf(p, x) /\ PosOf(p, x) < PosOf(p, b) =>
              /\ OpOf(p, x).kind # "call"
              /\ ~(OpOf(p, x).kind = "load" /\ AccessEq(OpOf(p, x), OpOf(p, a)))

\* C4: whenever findUnusedStore schedules store A (or its conditional) for
\* erasure, some other store B to the same element overwrites what A wrote
\* on every execution in which A writes, with no read in between.
C4_ErasedStoreIsOverwritten ==
    last.kind = "dse" /\ last.res # 0 =>
        \E b \in Ids(last.pre) : OverwrittenBy(last.pre, last.arg, b)

\* C7: when forwardStoreToLoad forwards from the sole store of an else-less
\* conditional that does not dominate the load, the conditional is gone; in
\* its place stand a clone of the load, a select of the stored value and
\* the clone under the conditional's condition, and the store, storing the
\* select; every use of the load is a use of the select; the load is in the
\* erase list; the clone is returned; and the store writes the stored value
\* when the condition holds and the previous content otherwise.
C7_HoistResult ==
    \A s \in (IF last.kind = "fwd" THEN TypedForwardingSources(last.pre, last.arg)
              ELSE {}) :
        ~Dominates(last.pre, s, last.arg) =>
            LET P == last.pre
                L == last.arg
                c == OpOf(P, s).parent
                k == PosOf(P, c)
                loc == <<OpOf(P, s).mem, OpOf(P, s).idx>>
            IN  /\ c \notin Ids(prog)
                /\ Len(prog) = Len(P) + 1
                /\ prog[k].kind = "load"
                /\ prog[k].id \notin Ids(P)
                /\ AccessEq(prog[k], OpOf(P, L))
                /\ prog[k].ty = OpOf(P, L).ty
                /\ prog[k + 1].kind = "select"
                /\ prog[k + 1].id \notin Ids(P) \cup {prog[k].id}
                /\ prog[k + 1].cond = OpOf(P, c).cond
                /\ prog[k + 1].val = OpOf(P, s).val
                /\ prog[k + 1].val2 = prog[k].id
                /\ prog[k + 2] = [OpOf(P, s) EXCEPT !.parent = OpOf(P, c).parent,
                                                   !.br = OpOf(P, c).br,
                                                   !.val = prog[k + 1].id]
                /\ \A i \in k .. k + 1 :
                      prog[i].parent = OpOf(P, c).parent /\ prog[i].br = OpOf(P, c).br
                /\ \A i \in DOMAIN P :
                      i \notin {k, k + 1} =>
                          prog[IF i > k THEN i + 1 ELSE i]
                              = WithUse(P[i], L, prog[k + 1].id)
                /\ ret = [i \in DOMAIN last.preRet |->
                            IF last.preRet[i] = L THEN prog[k + 1].id
                            ELSE last.preRet[i]]
                /\ opsToErase = Append(last.preErase, L)
                /\ last.res = prog[k].id
                /\ \A env \in Envs :
                      Executes(prog, s, env) =>
                          LET before == Run(SubSeq(prog, 1, k - 1), env)
                              after == Run(SubSeq(prog, 1, k + 2), env)
                          IN  after.mem[loc] =
                                  IF env[OpOf(P, c).cond]
                                  THEN ValOf(before, OpOf(P, s).val)
                                  ELSE before.mem[loc]

\* C7, witness: a hoist has happened, and the load it replaced had a use.
C7_Witness ==
    /\ last.kind = "fwd"
    /\ last.res \notin {0, last.arg}
    /\ HasUses(last.pre, last.preRet, last.arg)

\* C8: loadCSE replaces the uses of load A by the value of load B, and
\* schedules A for erasure, only if B meets the conditions of loadCSE and
\* dominates every other load that meets them; if no such load dominates
\* all the others, nothing changes.
C8_LoadCSEChoice ==
    last.kind = "cse" =>
        LET P == last.pre
            A == last.arg
            S == CSESources(P, A)
            changed == prog # P \/ ret # last.preRet \/ opsToErase # last.preErase
        IN  /\ changed =>
                /\ last.res \in S
                /\ \A o \in S : Dominates(P, last.res, o)
                /\ prog = [i \in DOMAIN P |-> WithUse(P[i], A, last.res)]
                /\ ret = [i \in DOMAIN last.preRet |->
                            IF last.preRet[i] = A THEN last.res ELSE last.preRet[i]]
                /\ opsToErase = Append(last.preErase, A)
            /\ (~\E o \in S : \A d \in S : Dominates(P, o, d)) => ~changed

\* C8, witness: loadCSE replaced a load that had two candidates.
C8_Witness ==
    /\ last.kind = "cse"
    /\ last.res # 0
    /\ Cardinality(CSESources(last.pre, last.arg)) >= 2
    /\ opsToErase # last.preErase

\* C9: no operation is erased while one of its results has a use left, and
\* none is erased twice.
C9_ErasedWithoutUses ==
    \A i \in DOMAIN eraseLog : ~eraseLog[i].uses /\ eraseLog[i].kind # "gone"

\* C9, witness: a replaced load, a dead store, and the users and the alloc
\* of a dead buffer have been erased.
C9_Witness ==
    /\ \E i \in DOMAIN eraseLog : eraseLog[i].kind = "load"
    /\ \E i \in DOMAIN eraseLog : eraseLog[i].kind = "alloc"
    /\ \E i \in DOMAIN eraseLog :
          eraseLog[i].kind = "store" /\ eraseLog[i].at = "erase2"

WalkPhases == {"fwd", "cse", "dse"}

\* C10 as stated: no operation is erased during the walk over the loads or
\* the walk over the stores.
C10_NoEraseDuringWalk ==
    \A i \in DOMAIN eraseLog : eraseLog[i].at \notin WalkPhases

\* C10 as amended: during the walks nothing that is in the erase list is
\* erased, and the only operation erased at all is the conditional that
\* forwardStoreToLoad has just emptied by hoisting its store.
C10_OnlyHoistedIfErasedInWalk ==
    /\ \A i \in DOMAIN eraseLog :
          eraseLog[i].at \in WalkPhases =>
              eraseLog[i].at = "fwd" /\ eraseLog[i].kind = "if"
    /\ pc \in WalkPhases => \A i \in DOMAIN opsToErase : opsToErase[i] \in Ids(prog)

\* C10, witness: the walk over the loads goes on after a hoist erased a
\* conditional, with a load waiting in the erase list.
C10_Witness ==
    /\ pc \in WalkPhases
    /\ opsToErase # <<>>
    /\ \E i \in DOMAIN eraseLog : eraseLog[i].at = "fwd"

(***************************************************************************)
(* The interference scanner.                                               *)
(***************************************************************************)
Scanning == pc = "scanned"
ScanTarget == OpOf(prog, cur).mem
ScanEffect == EffectQueried(OpOf(prog, cur))
ScannedOps == {OpOf(prog, x) : x \in Scanned(prog, walk[1], cur)}

BothLocal(m1, m2) == isLocallyAllocated(prog, m1) /\ isLocallyAllocated(prog, m2)

\* C5: a scanned operation that declares the queried effect on a reference
\* other than the target is disregarded only when both references are
\* locally allocated; for any other pair of differing references it
\* counts as interference, affine access or not.
C5_OnlyDistinctLocalsExcluded ==
    Scanning =>
        \A o \in ScannedOps : \A e \in Effects(o) :
            /\ e[1] = ScanEffect
            /\ e[2] \notin {"none", ScanTarget}
            /\ ~BothLocal(ScanTarget, e[2])
            => ~ScanResult

\* The operation has the queried effect on a value that may be the target:
\* the effect is not on a buffer that is, like the target, locally
\* allocated and distinct from it.
HasQueriedEffect(o) ==
    \E e \in Effects(o) :
        /\ e[1] = ScanEffect
        /\ ~(e[2] \notin {"none", ScanTarget} /\ BothLocal(ScanTarget, e[2]))

SameScopeAsQuery(o) ==
    /\ getAffineScope(prog, o.id) = getAffineScope(prog, cur)
    /\ getAffineScope(prog, o.id) = getAffineScope(prog, walk[1])

LowestDepth == getNumCommonSurroundingLoops(prog, walk[1], cur) + 1
HighestDepth(o) == getNumCommonSurroundingLoops(prog, o.id, cur) + 1

\* C6: the query answers false whenever a scanned operation (a) has neither
\* the memory-effect interface nor recursive side effects, (b) has the
\* queried effect and is no affine access, (c) is an affine access with the
\* queried effect to the target in another affine scope than start or end,
\* or (d) is such an access in the same scope for which the dependence test
\* answers other than NoDependence at some depth from
\* common-loops(start,end)+1 to common-loops(op,end)+1; and for a same-scope
\* affine access that range is never empty.
C6_UncertaintyIsInterference ==
    Scanning =>
        \A o \in ScannedOps :
            LET onTarget == IsAffineAccess(o) /\ o.mem = ScanTarget
                                /\ HasQueriedEffect(o)
            IN  /\ ~HasMemEffectInterface(o) /\ ~HasRecursiveSideEffects(o)
                    => ~ScanResult
                /\ HasQueriedEffect(o) /\ ~IsAffineAccess(o) => ~ScanResult
                /\ onTarget /\ ~SameScopeAsQuery(o) => ~ScanResult
                /\ onTarget /\ SameScopeAsQuery(o) =>
                    /\ LowestDepth <= HighestDepth(o)
                    /\ (\E d \in LowestDepth .. HighestDepth(o) :
                           checkMemrefAccessDependence(prog, o, OpOf(prog, cur), d)
                               \in {"HasDependence", "Failure"})
                        => ~ScanResult

\* C6, witness: apart from the loop and the end itself, the only scanned
\* operation is a same-scope affine access to the target; two depths are
\* tested, and the test fails to decide at the lowest of them only.
C6_Witness ==
    /\ Scanning
    /\ ~ScanResult
    /\ \E o \in ScannedOps :
          /\ IsAffineAccess(o) /\ o.mem = ScanTarget /\ HasQueriedEffect(o)
          /\ SameScopeAsQuery(o)
          /\ LowestDepth < HighestDepth(o)
          /\ depOracle[LowestDepth] = "Failure"
          /\ depOracle[HighestDepth(o)] = "NoDependence"
          /\ \A x \in ScannedOps \ {o} : x.kind = "for" \/ x.id = cur

(***************************************************************************)
(* The pass as a whole.                                                    *)
(***************************************************************************)
\* No operation between stores a and b of body p reads their memref: no
\* load of it, affine or not, and no call.
NoReadBetween(p, a, b) ==
    \A x \in Ids(p) :
        PosOf(p, a) < PosOf(p, x) /\ PosOf(p, x) < PosOf(p, b) =>
            /\ OpOf(p, x).kind # "call"
            /\ ~(OpOf(p, x).kind \in {"load", "mload"}
                    /\ OpOf(p, x).mem = OpOf(p, a).mem)

\* Stores a and b of the input: same element, b post-dominates a, no read
\* of the reference between them.
OverwritingPair(a, b) ==
    /\ a \in Ids(orig) /\ b \in Ids(orig) /\ a # b
    /\ OpOf(orig, a).kind = "store" /\ OpOf(orig, b).kind = "store"
    /\ AccessEq(OpOf(orig, a), OpOf(orig, b))
    /\ PostDominates(orig, b, a)
    /\ NoReadBetween(orig, a, b)

Swept(b) ==
    /\ isLocallyAllocated(orig, OpOf(orig, b).mem)
    /\ ~isLocallyAllocated(prog, OpOf(orig, b).mem)

\* The two stores lie in one region, and not in that of a conditional.
SameUnconditionalRegion(a, b) ==
    /\ RegionOf(orig, a) = RegionOf(orig, b)
    /\ ~IsIf(orig, OpOf(orig, a).parent)

C12_SecondRunChangesNothing ==
    runs = 2 => prog = orig /\ ret = origRet /\ opsToErase = <<>>


(***************************************************************************)
(* Insertion of one operation between start and end of a query.            *)
(***************************************************************************)
\* Body p with operation o put at position i.
InsertAt(p, i, o) == SubSeq(p, 1, i - 1) \o <<o>> \o SubSeq(p, i, Len(p))

\* The body of the query with an operation of the given kind, memref and
\* index put right after start (where = 1) or right before end (where = 2).
Inserted(kind, mem, idx, where) ==
    LET at == OpOf(prog, IF where = 1 THEN walk[1] ELSE cur)
        o == MkOp(Len(prog) + 1, kind, at.parent, at.br, mem, idx,
                  IF kind \in {"store", "mstore"} THEN 0 ELSE -1, -1,
                  IF kind \in {"load", "mload"} THEN "f32" ELSE "none", 0)
    IN  InsertAt(prog, IF where = 1 THEN PosOf(prog, walk[1]) + 1
                       ELSE PosOf(prog, cur), o)

\* The answer of the query on that body.
ResultWith(kind, mem, idx, where) ==
    hasNoInterveningEffect(Inserted(kind, mem, idx, where), ScanEffect,
                           walk[1], cur)

\* The kinds of operation with the queried effect: an affine access and a
\* non-affine one.
AffineKind == IF ScanEffect = "Write" THEN "store" ELSE "load"
NonAffineKind == IF ScanEffect = "Write" THEN "mstore" ELSE "mload"
Places == {1, 2}
Indices == {0, 1}

\* C13 as stated: when the query answers true, it still does after an
\* operation without memory effect is put between start and end, and it
\* answers false after any operation with the queried effect on the
\* memref of end is put there.
C13_InsertionMonotone ==
    Scanning /\ ScanResult =>
        \A w \in Places :
            /\ ResultWith("pure", "none", 0, w)
            /\ \A k \in {AffineKind, NonAffineKind}, i \in Indices :
                  ~ResultWith(k, ScanTarget, i, w)

\* The dependence test finds the inserted affine access independent of
\* end at every depth the scan tests, all three in one affine scope.
ProvedIndependent(i, w) ==
    LET p == Inserted(AffineKind, ScanTarget, i, w)
        x == OpOf(p, Len(prog) + 1)
    IN  /\ getAffineScope(p, x.id) = getAffineScope(p, cur)
        /\ getAffineScope(p, x.id) = getAffineScope(p, walk[1])
        /\ \A d \in (getNumCommonSurroundingLoops(p, walk[1], cur) + 1) ..
                    (getNumCommonSurroundingLoops(p, x.id, cur) + 1) :
              checkMemrefAccessDependence(p, x, OpOf(p, cur), d) = "NoDependence"

\* C13 as amended: when the query answers true, it still does after an
\* operation without memory effect is put between start and end; it
\* answers false after a non-affine operation with the queried effect on
\* the memref of end is put there; and after an affine access with that
\* effect on that memref it answers false unless the dependence test
\* proves the access independent of end.
C13_InsertionMonotoneUnlessIndependent ==
    Scanning /\ ScanResult =>
        \A w \in Places :
            /\ ResultWith("pure", "none", 0, w)
            /\ \A i \in Indices :
                  /\ ~ResultWith(NonAffineKind, ScanTarget, i, w)
                  /\ ResultWith(AffineKind, ScanTarget, i, w)
                        <=> ProvedIndependent(i, w)

\* C13, witness: a query about writes that answers true, still does with a
\* store to another element of the memref before end, and answers false
\* with a store to the element end reads there.
C13_Witness ==
    /\ Scanning /\ ScanResult
    /\ ScanEffect = "Write"
    /\ OpOf(prog, cur).idx = 0
    /\ ResultWith("store", ScanTarget, 1, 2)
    /\ ~ResultWith("store", ScanTarget, 0, 2)
    /\ ~ResultWith("mstore", ScanTarget, 1, 2)


(***************************************************************************)
(* The traversal of a region of several blocks.                            *)
(***************************************************************************)
Traversing == trav.pc \in {"first", "loop", "end"}

\* Block b can be reached from block a along one or more edges without
\* leaving through the block of untilOp.
RECURSIVE ReachedWithin(_, _)
ReachedWithin(S, n) ==
    IF n = 0 THEN S
    ELSE ReachedWithin(S \cup UNION {trav.succ[b] : b \in S \ {trav.untilBlk}},
                       n - 1)

ReachableFromStart ==
    IF trav.untilBlk = trav.fromBlk THEN {}
    ELSE ReachedWithin(trav.succ[trav.fromBlk], MaxBlocks + 1)

\* C14 as stated: in one query the operations of every block, the block
\* of start included, are scanned at most once.
C14_EveryBlockOnce ==
    Traversing => \A b \in Blocks : trav.scans[b] <= 1

\* C14 as amended: every block other than the block of start is scanned at
\* most once; the block of start is scanned once after start and, when a
\* cycle leads back to it, once more as a whole, never a third time.
C14_EveryBlockOnceButStart ==
    Traversing =>
        /\ \A b \in Blocks \ {trav.fromBlk} : trav.scans[b] <= 1
        /\ trav.scans[trav.fromBlk] <= 2
        /\ trav.scans[trav.fromBlk] = 2 => trav.fromBlk \in ReachableFromStart
        /\ trav.pc = "end" =>
              \A b \in Blocks :
                  trav.scans[b] = (IF b = trav.fromBlk THEN 1 ELSE 0)
                                  + (IF b \in ReachableFromStart THEN 1 ELSE 0)

\* C14, witness: the traversal is over, a cycle led back to the block of
\* start, which was scanned twice, and another block was scanned once.
C14_Witness ==
    /\ trav.pc = "end"
    /\ trav.scans[trav.fromBlk] = 2
    /\ \E b \in Blocks \ {trav.fromBlk} : trav.scans[b] = 1

(***************************************************************************)
(* The repeat-forwarding loop of the driver.                               *)
(***************************************************************************)
NumIfs(p) == Cardinality({i \in DOMAIN p : p[i].kind = "if"})
Scheduled == {opsToErase[i] : i \in DOMAIN opsToErase}

\* The last step was an iteration of the loop that goes on:
\* forwardStoreToLoad returned a load, and not the one it was given.
Continued == last.kind = "fwd" /\ last.res # 0 /\ last.res # last.arg

\* C15: an iteration of the repeat-forwarding loop that goes on has erased
\* exactly one conditional and returned a load that did not exist before,
\* so the iterations that went on for one load never outnumber the
\* conditionals the function had (nor those erased so far); loadCSE is
\* called on a load of the function that is not in the erase list, and no
\* operation is in the erase list twice.
C15_LoopBoundedNoDoubleErase ==
    /\ Continued =>
          /\ NumIfs(prog) = NumIfs(last.pre) - 1
          /\ last.res \notin Ids(last.pre)
          /\ last.res \in Ids(prog)
          /\ OpOf(prog, last.res).kind = "load"
          /\ pc = "fwd" /\ cur = last.res
          /\ iters >= 1
    /\ iters <= NumIfs(orig)
    /\ pc \in {"fwd", "cse"} => iters <= NumIfs(orig) - NumIfs(prog)
    /\ pc = "cse" => cur \in Ids(prog) /\ cur \notin Scheduled
    /\ \A i, j \in DOMAIN opsToErase :
          opsToErase[i] = opsToErase[j] => i = j

\* C15, witness: the loop went on once for a load, which is now in the
\* erase list, and ended on the clone, on which loadCSE is about to run.
C15_Witness ==
    /\ pc = "cse"
    /\ iters >= 1
    /\ cur \notin Ids(orig)
    /\ Scheduled # {}

====
